---- MODULE Spec2Model ----
(***************************************************************************)
(* The credential lifecycle of the Campus-Sync backend: the /register and  *)
(* /login handlers of backend/routes/authRoutes.js (and of its earlier     *)
(* copy, unnamed/part_000), the User collection they share, the bcryptjs   *)
(* digests they store and the JWTs they hand out.                          *)
(*                                                                         *)
(* A handler is an async function: it runs without interruption up to an   *)
(* await (User.findOne, bcrypt.hash, user.save, bcrypt.compare) and other  *)
(* handlers run while it waits.  Each action below is one such stretch:    *)
(* the awaited operation's completion and the code after it up to the next *)
(* await or response.                                                      *)
(***************************************************************************)
EXTENDS Integers, Sequences, FiniteSets, TLC

\* ------------------------------------------------------------ bounds
\* Requests handled in one run.
MaxReqs == 2
\* Salts bcrypt.genSalt may draw: 1..MaxSalt.
MaxSalt == 1
\* Clock readings sampled after each boundary: boundary .. boundary + MaxSkew.
MaxSkew == 1

\* ------------------------------------------------------------ values
\* req.body fields are strings; an absent field reads as undefined.
Undefined == "<undefined>"
\* !x of a string or undefined
Falsy(x) == x \in {"", Undefined}

\* ["student", "teacher", "admin", "parent"]
PermittedRoles == {"student", "teacher", "admin", "parent"}

\* bcrypt.hash(password, 10)
SaltRounds == 10
\* expiresIn: "7d", as seconds
SecondsPerDay == 86400
ExpiresInDays == 7
ExpiresIn == ExpiresInDays * SecondsPerDay
\* "your_jwt_secret"
JwtSecret == "your_jwt_secret"

\* What the clients of a run send: req.body with every field a non-empty
\* string, with a role outside the permitted ones, with one field empty or
\* absent, or {}.
Emails == {"a@x.com", "b@x.com"}
Passwords == {"pw1", "wrong"}
RolesSent == {"student", "teacher"}
FilledBodies == [email : Emails, password : Passwords, role : RolesSent]
LackingBodies ==
    LET b == [email |-> "a@x.com", password |-> "pw1", role |-> "student"]
    IN  {[b EXCEPT ![f] = v] : f \in {"email", "password", "role"}, v \in {"", Undefined}}
            \cup {[b EXCEPT !.role = "guest"]}
            \cup {[email |-> Undefined, password |-> Undefined, role |-> Undefined]}
Bodies == FilledBodies \cup LackingBodies
\* The one client of the runs in which time passes.
ClockBodies == {[email |-> "b@x.com", password |-> "pw1", role |-> "student"]}
\* Two passwords of 73 bytes: 72 times a, then 1 or 2.
LongPasswords ==
    {"aaaaaaaaaaaaaaaaaaaaaaaaaaaaaaaaaaaaaaaaaaaaaaaaaaaaaaaaaaaaaaaaaaaaaaaa1",
     "aaaaaaaaaaaaaaaaaaaaaaaaaaaaaaaaaaaaaaaaaaaaaaaaaaaaaaaaaaaaaaaaaaaaaaaa2"}
\* The bodies of the runs in which every call settles: one for each result of
\* each route, and the free email under two roles.
SettleBodies ==
    {[email |-> "b@x.com", password |-> "pw1", role |-> "student"],
     [email |-> "b@x.com", password |-> "pw1", role |-> "teacher"],
     [email |-> "a@x.com", password |-> "pw1", role |-> "student"],
     [email |-> "a@x.com", password |-> "wrong", role |-> "student"],
     [email |-> "a@x.com", password |-> "pw1", role |-> "teacher"],
     [email |-> "a@x.com", password |-> Undefined, role |-> "student"]}
\* The one client of the runs with passwords longer than bcrypt reads.
LongBodies == [email : {"b@x.com"}, password : LongPasswords, role : {"student"}]
Salts == 1..MaxSalt
\* Clock readings (seconds): around 0 and around the seven day boundary.
Instants == {0, 1} \cup {ExpiresIn + o : o \in (0 - 1)..MaxSkew}

VARIABLES users, reqs, now, routes

vars == <<users, reqs, now, routes>>

\* ------------------------------------------------------------ User model
\* The document a handler builds with new User({ email, password, role });
\* mongoose gives it a fresh ObjectId, here the number of the request.
ObjectId(i) == i

NewUser(i, email, hashedPassword, role) ==
    [_id |-> ObjectId(i), email |-> email, password |-> hashedPassword, role |-> role]

\* userSchema: every path required, role one of the enum.
SchemaValid(doc) ==
    /\ ~Falsy(doc.email)
    /\ doc.role \in PermittedRoles

\* The index made compound, userSchema.index({ email: 1, role: 1 }, { unique: true }):
\* an email is unique within a role.
UniqueIndexAdmits_PerRole(coll, doc) ==
    \A d \in coll : ~(d.email = doc.email /\ d.role = doc.role)

\* The collection without the index (unique: true left out of the schema).
UniqueIndexAdmits_NoIndex(coll, doc) == TRUE

\* userSchema email: unique: true -- the collection's unique index on email.
UniqueIndexAdmits(coll, doc) == \A d \in coll : d.email # doc.email

\* User.findOne(filter), given the documents the filter matches: the first of
\* them in natural order, or null.  The result is the set holding that
\* document, empty for null.
FindOne(hits) ==
    IF hits = {} THEN {}
    ELSE {CHOOSE d \in hits : \A o \in hits : d._id <= o._id}

\* User.findOne({ email })
FindByEmail(coll, email) == FindOne({d \in coll : d.email = email})

\* The lookup of /login without its role key.
FindByEmailAndRole_IgnoresRole(coll, email, role) == FindByEmail(coll, email)

\* User.findOne({ email, role })
FindByEmailAndRole(coll, email, role) ==
    FindOne({d \in coll : d.email = email /\ d.role = role})

\* ------------------------------------------------------------ bcryptjs
\* bcrypt keys its cipher with the first 72 bytes of the password and reads no
\* further.  Of the passwords sent here only the two long ones reach past that.
bcryptKey(password) ==
    IF password \in LongPasswords
    THEN "aaaaaaaaaaaaaaaaaaaaaaaaaaaaaaaaaaaaaaaaaaaaaaaaaaaaaaaaaaaaaaaaaaaaaaaa"
    ELSE password

\* A digest carries its cost and its salt beside the hash of (key, salt).
bcryptHash(password, rounds, salt) ==
    [rounds |-> rounds, salt |-> salt, hash |-> <<bcryptKey(password), rounds, salt>>]

\* Comparing against a digest made with a fresh salt instead of the stored one.
bcryptCompare_FreshSalt(password, digest) ==
    bcryptHash(password, digest.rounds, digest.salt + 1).hash = digest.hash

\* bcrypt.compare without its await: isMatch is a promise, which is truthy.
bcryptCompare_NoAwait(password, digest) == TRUE

\* bcrypt.compare(password, digest): rehash with the digest's salt and cost.
bcryptCompare(password, digest) ==
    bcryptHash(password, digest.rounds, digest.salt).hash = digest.hash

\* ------------------------------------------------------------ tokens
\* expiresIn: "7h"
generateToken_Hours(id) ==
    [id |-> id, iat |-> now, exp |-> now + ExpiresInDays * 3600, key |-> JwtSecret]

\* expiresIn: 7, which jsonwebtoken reads as seconds.
generateToken_Seconds(id) ==
    [id |-> id, iat |-> now, exp |-> now + ExpiresInDays, key |-> JwtSecret]

\* jwt.sign({ id }, "your_jwt_secret", { expiresIn: "7d" })
generateToken(id) ==
    [id |-> id, iat |-> now, exp |-> now + ExpiresIn, key |-> JwtSecret]

\* ------------------------------------------------------------ responses
NoRes == [status |-> 0, body |-> [message |-> <<>>]]

\* res.status(400).json({ message })
BadRequest(message) == [status |-> 400, body |-> [message |-> <<message>>]]

\* catch (error): res.status(500).json({ message: "Server error", error: error.message })
ServerError(errorMessage) ==
    [status |-> 500, body |-> [message |-> <<"Server error">>, error |-> errorMessage]]

ConnectionError == "connection failure"
DuplicateKeyError == "E11000 duplicate key error"
ValidationError == "User validation failed"

\* authRoutes.js: the user of a success body
PublicUser(user) == [id |-> user._id, email |-> user.email, role |-> user.role]

\* res.status(201).json({...}) of /register
RegisterCreated(file, role, user) ==
    IF file = "authRoutes"
    THEN [status |-> 201,
          body |-> [message |-> <<role, " registered successfully">>,
                    token |-> generateToken(user._id),
                    user |-> PublicUser(user)]]
    ELSE [status |-> 201,
          body |-> [message |-> <<role, " registered successfully">>,
                    user |-> user]]

\* res.json({...}) of /login
LoginOk(file, role, user) ==
    IF file = "authRoutes"
    THEN [status |-> 200,
          body |-> [message |-> <<role, " login successful">>,
                    token |-> generateToken(user._id),
                    user |-> PublicUser(user)]]
    ELSE [status |-> 200,
          body |-> [message |-> <<role, " login successful">>,
                    user |-> user]]

\* ------------------------------------------------------------ requests
\* const { email, password, role } = req.body
NewReq(route, body) ==
    [route |-> route, email |-> body.email, password |-> body.password, role |-> body.role,
     pc |-> "start", user |-> {}, res |-> NoRes, did |-> <<>>]

\* The handler returns after sending res.
Respond(r, res) == [r EXCEPT !.pc = "done", !.res = res]

Await(r, pc) == [r EXCEPT !.pc = pc]

Did(r, step) == [r EXCEPT !.did = Append(@, step)]

\* /register without the check of role against the permitted ones.
RegisterStart_NoRoleCheck(r) ==
    IF Falsy(r.email) \/ Falsy(r.password) \/ Falsy(r.role)
    THEN Respond(r, BadRequest("All fields are required"))
    ELSE Await(r, "findOne")

\* /register, to its first await
RegisterStart(r) ==
    IF Falsy(r.email) \/ Falsy(r.password) \/ Falsy(r.role)
    THEN Respond(r, BadRequest("All fields are required"))
    ELSE IF r.role \notin PermittedRoles
    THEN Respond(r, BadRequest("Invalid role"))
    ELSE Await(r, "findOne")

\* /register without the return before its "User already exists" response:
\* the handler sends the 400 and goes on to bcrypt.hash and user.save().
RegisterAfterFindOne_NoReturn(r, up, coll) ==
    IF ~up THEN Respond(r, ServerError(ConnectionError))
    ELSE LET userExists == FindByEmail(coll, r.email)
         IN  IF userExists # {}
             THEN [Await(Did(r, "findOne"), "hash") EXCEPT
                      !.res = BadRequest("User already exists")]
             ELSE Await(Did(r, "findOne"), "hash")

\* /register looking the email up under the requested role only.
RegisterAfterFindOne_ByRole(r, up, coll) ==
    IF ~up THEN Respond(r, ServerError(ConnectionError))
    ELSE LET userExists == FindByEmailAndRole(coll, r.email, r.role)
         IN  IF userExists # {}
             THEN Respond(Did(r, "findOne"), BadRequest("User already exists"))
             ELSE Await(Did(r, "findOne"), "hash")

\* /register, from User.findOne({ email }) to bcrypt.hash
RegisterAfterFindOne(r, up, coll) ==
    IF ~up THEN Respond(r, ServerError(ConnectionError))
    ELSE LET userExists == FindByEmail(coll, r.email)
         IN  IF userExists # {}
             THEN Respond(Did(r, "findOne"), BadRequest("User already exists"))
             ELSE Await(Did(r, "findOne"), "hash")

\* /register hashing the wrong field of the body: bcrypt.hash(email, 10).
RegisterAfterHash_HashesEmail(r, i, salt) ==
    LET hashedPassword == bcryptHash(r.email, SaltRounds, salt)
    IN  [Await(Did(r, "hash"), "save") EXCEPT
            !.user = {NewUser(i, r.email, hashedPassword, r.role)}]

\* /register, from bcrypt.hash to user.save()
RegisterAfterHash(r, i, salt) ==
    LET hashedPassword == bcryptHash(r.password, SaltRounds, salt)
    IN  [Await(Did(r, "hash"), "save") EXCEPT
            !.user = {NewUser(i, r.email, hashedPassword, r.role)}]

\* user.save(): the error it throws, "" when the document is inserted
SaveError(coll, doc, up) ==
    IF ~SchemaValid(doc) THEN ValidationError
    ELSE IF ~up THEN ConnectionError
    ELSE IF ~UniqueIndexAdmits(coll, doc) THEN DuplicateKeyError
    ELSE ""

\* /register with user.save() not awaited: the response is sent whether or not
\* the insertion succeeds.
RegisterAfterSave_NoAwait(r, file, err) ==
    LET user == CHOOSE d \in r.user : TRUE
    IN  Respond(Did(Did(r, "save"), "token"), RegisterCreated(file, r.role, user))

\* /register, from user.save() to the response
RegisterAfterSave(r, file, err) ==
    LET user == CHOOSE d \in r.user : TRUE
    IN  IF err # "" THEN Respond(r, ServerError(err))
        ELSE Respond(Did(Did(r, "save"), "token"), RegisterCreated(file, r.role, user))

\* /login with the check of role that /register makes.
LoginStart_RoleCheck(r) ==
    IF Falsy(r.email) \/ Falsy(r.password) \/ Falsy(r.role)
    THEN Respond(r, BadRequest("All fields are required"))
    ELSE IF r.role \notin PermittedRoles
    THEN Respond(r, BadRequest("Invalid role"))
    ELSE Await(r, "findOne")

\* /login, to its first await
LoginStart(r) ==
    IF Falsy(r.email) \/ Falsy(r.password) \/ Falsy(r.role)
    THEN Respond(r, BadRequest("All fields are required"))
    ELSE Await(r, "findOne")

\* /login with a catch that logs the error and sends nothing:
\* catch (error) { console.error(error) }.
LoginAfterFindOne_SilentCatch(r, up, coll) ==
    IF ~up THEN Await(r, "failed")
    ELSE LET user == FindByEmailAndRole(coll, r.email, r.role)
         IN  IF user = {}
             THEN Respond(Did(r, "findOne"), BadRequest("User not found for this role"))
             ELSE [Await(Did(r, "findOne"), "compare") EXCEPT !.user = user]

\* /login with the lookup's rejection turned into null:
\* User.findOne({ email, role }).catch(() => null).
LoginAfterFindOne_CatchNull(r, up, coll) ==
    LET user == IF up THEN FindByEmailAndRole(coll, r.email, r.role) ELSE {}
    IN  IF user = {}
        THEN Respond(Did(r, "findOne"), BadRequest("User not found for this role"))
        ELSE [Await(Did(r, "findOne"), "compare") EXCEPT !.user = user]

\* /login telling a wrong role from an unknown email.
LoginAfterFindOne_Leaky(r, up, coll) ==
    IF ~up THEN Respond(r, ServerError(ConnectionError))
    ELSE LET user == FindByEmailAndRole(coll, r.email, r.role)
         IN  IF user = {} /\ FindByEmail(coll, r.email) # {}
             THEN Respond(Did(r, "findOne"), BadRequest("Email registered under another role"))
             ELSE IF user = {}
             THEN Respond(Did(r, "findOne"), BadRequest("User not found for this role"))
             ELSE [Await(Did(r, "findOne"), "compare") EXCEPT !.user = user]

\* /login, from User.findOne({ email, role }) to bcrypt.compare
LoginAfterFindOne(r, up, coll) ==
    IF ~up THEN Respond(r, ServerError(ConnectionError))
    ELSE LET user == FindByEmailAndRole(coll, r.email, r.role)
         IN  IF user = {}
             THEN Respond(Did(r, "findOne"), BadRequest("User not found for this role"))
             ELSE [Await(Did(r, "findOne"), "compare") EXCEPT !.user = user]

\* /login, from bcrypt.compare to the response
LoginAfterCompare(r, file) ==
    LET user == CHOOSE d \in r.user : TRUE
        isMatch == bcryptCompare(r.password, user.password)
    IN  IF ~isMatch
        THEN Respond(Did(r, "compare"), BadRequest("Invalid password"))
        ELSE Respond(Did(Did(r, "compare"), "token"), LoginOk(file, r.role, user))

\* ------------------------------------------------------------ the system
Waiting(i, route, pc) ==
    /\ i \in 1..Len(reqs)
    /\ reqs[i].route = route
    /\ reqs[i].pc = pc

\* The account an earlier run of the server left in the database.
SeedUser == NewUser(0, "a@x.com", bcryptHash("pw1", SaltRounds, 1), "student")

\* connectDB(), then app.use("/api/auth", require("./routes/authRoutes")): the
\* database holds what earlier runs stored (a@x.com is taken, b@x.com is free);
\* no request has arrived.
Init ==
    /\ users = {SeedUser}
    /\ reqs = <<>>
    /\ now = 0
    /\ routes = "authRoutes"

\* The same with either copy of the routes mounted.
InitEither ==
    /\ users = {SeedUser}
    /\ reqs = <<>>
    /\ now = 0
    /\ routes \in {"authRoutes", "part_000"}

\* POST /api/auth/register arrives
Register(body) ==
    /\ Len(reqs) < MaxReqs
    /\ reqs' = Append(reqs, RegisterStart(NewReq("register", body)))
    /\ UNCHANGED <<users, now, routes>>

\* User.findOne({ email }) of request i returns or throws
RegisterFindOne(i) ==
    /\ Waiting(i, "register", "findOne")
    /\ \E up \in BOOLEAN :
          reqs' = [reqs EXCEPT ![i] = RegisterAfterFindOne(@, up, users)]
    /\ UNCHANGED <<users, now, routes>>

\* bcrypt.hash of request i resolves
RegisterHash(i) ==
    /\ Waiting(i, "register", "hash")
    /\ \E salt \in Salts :
          reqs' = [reqs EXCEPT ![i] = RegisterAfterHash(@, i, salt)]
    /\ UNCHANGED <<users, now, routes>>

\* The insertion written as an upsert on email,
\* User.findOneAndUpdate({ email }, doc, { upsert: true }): it replaces the
\* account that holds the email.
RegisterSave_Upsert(i) ==
    /\ Waiting(i, "register", "save")
    /\ \E up \in BOOLEAN :
          LET doc == CHOOSE d \in reqs[i].user : TRUE
              err == IF up THEN "" ELSE ConnectionError
          IN  /\ users' = IF err = ""
                          THEN {d \in users : d.email # doc.email} \cup {doc}
                          ELSE users
              /\ reqs' = [reqs EXCEPT ![i] = RegisterAfterSave(@, routes, err)]
    /\ UNCHANGED <<now, routes>>

\* user.save() of request i returns or throws
RegisterSave(i) ==
    /\ Waiting(i, "register", "save")
    /\ \E up \in BOOLEAN :
          LET doc == CHOOSE d \in reqs[i].user : TRUE
              err == SaveError(users, doc, up)
          IN  /\ users' = IF err = "" THEN users \cup {doc} ELSE users
              /\ reqs' = [reqs EXCEPT ![i] = RegisterAfterSave(@, routes, err)]
    /\ UNCHANGED <<now, routes>>

\* POST /api/auth/login arrives
Login(body) ==
    /\ Len(reqs) < MaxReqs
    /\ reqs' = Append(reqs, LoginStart(NewReq("login", body)))
    /\ UNCHANGED <<users, now, routes>>

\* User.findOne({ email, role }) of request i returns or throws
LoginFindOne(i) ==
    /\ Waiting(i, "login", "findOne")
    /\ \E up \in BOOLEAN :
          reqs' = [reqs EXCEPT ![i] = LoginAfterFindOne(@, up, users)]
    /\ UNCHANGED <<users, now, routes>>

\* /login upgrading the digest after a match: the password is hashed again
\* with a fresh salt and the account saved.
LoginCompare_Rehash(i) ==
    /\ Waiting(i, "login", "compare")
    /\ LET user == CHOOSE d \in reqs[i].user : TRUE
           rehashed == bcryptHash(reqs[i].password, SaltRounds, user.password.salt + 1)
       IN  users' = IF bcryptCompare(reqs[i].password, user.password)
                    THEN {IF d._id = user._id THEN [d EXCEPT !.password = rehashed] ELSE d :
                             d \in users}
                    ELSE users
    /\ reqs' = [reqs EXCEPT ![i] = LoginAfterCompare(@, routes)]
    /\ UNCHANGED <<now, routes>>

\* bcrypt.compare of request i resolves
LoginCompare(i) ==
    /\ Waiting(i, "login", "compare")
    /\ reqs' = [reqs EXCEPT ![i] = LoginAfterCompare(@, routes)]
    /\ UNCHANGED <<users, now, routes>>

\* Time passes: Date.now() reads a later instant.
Tick ==
    /\ \E t \in Instants : t > now /\ now' = t
    /\ UNCHANGED <<users, reqs, routes>>

Next ==
    \/ \E body \in Bodies : Register(body)
    \/ \E i \in 1..MaxReqs : RegisterFindOne(i)
    \/ \E i \in 1..MaxReqs : RegisterHash(i)
    \/ \E i \in 1..MaxReqs : RegisterSave(i)
    \/ \E body \in Bodies : Login(body)
    \/ \E i \in 1..MaxReqs : LoginFindOne(i)
    \/ \E i \in 1..MaxReqs : LoginCompare(i)

\* The requests of one client, with time passing between their steps.
NextClock ==
    \/ \E body \in ClockBodies : Register(body)
    \/ \E i \in 1..MaxReqs : RegisterFindOne(i)
    \/ \E i \in 1..MaxReqs : RegisterHash(i)
    \/ \E i \in 1..MaxReqs : RegisterSave(i)
    \/ \E body \in ClockBodies : Login(body)
    \/ \E i \in 1..MaxReqs : LoginFindOne(i)
    \/ \E i \in 1..MaxReqs : LoginCompare(i)
    \/ Tick

\* The requests of one client whose passwords are longer than bcrypt reads.
NextLong ==
    \/ \E body \in LongBodies : Register(body)
    \/ \E i \in 1..MaxReqs : RegisterFindOne(i)
    \/ \E i \in 1..MaxReqs : RegisterHash(i)
    \/ \E i \in 1..MaxReqs : RegisterSave(i)
    \/ \E body \in LongBodies : Login(body)
    \/ \E i \in 1..MaxReqs : LoginFindOne(i)
    \/ \E i \in 1..MaxReqs : LoginCompare(i)

\* authRoutes.js serving any clients at one clock reading
Spec == Init /\ [][Next]_vars

\* either copy of the routes serving any clients at one clock reading
SpecEither == InitEither /\ [][Next]_vars

\* authRoutes.js serving one client over time
SpecClock == Init /\ [][NextClock]_vars

\* authRoutes.js serving one client with long passwords
SpecLong == Init /\ [][NextLong]_vars

\* Requests with each result of each route, any of them side by side.
NextSettles ==
    \/ \E body \in SettleBodies : Register(body)
    \/ \E i \in 1..MaxReqs : RegisterFindOne(i)
    \/ \E i \in 1..MaxReqs : RegisterHash(i)
    \/ \E i \in 1..MaxReqs : RegisterSave(i)
    \/ \E body \in SettleBodies : Login(body)
    \/ \E i \in 1..MaxReqs : LoginFindOne(i)
    \/ \E i \in 1..MaxReqs : LoginCompare(i)

\* Every awaited call settles: the promise of User.findOne, bcrypt.hash,
\* user.save() or bcrypt.compare resolves or rejects, and the handler that
\* awaits it resumes.
EveryCallSettles ==
    \A i \in 1..MaxReqs :
        /\ WF_vars(RegisterFindOne(i))
        /\ WF_vars(RegisterHash(i))
        /\ WF_vars(RegisterSave(i))
        /\ WF_vars(LoginFindOne(i))
        /\ WF_vars(LoginCompare(i))

\* authRoutes.js serving any clients, every awaited call settling
SpecSettles == Init /\ [][NextSettles]_vars /\ EveryCallSettles

\* ------------------------------------------------------------ token verifier
\* verify(token) at clock reading t: the subject, or InvalidToken when the
\* signature does not match or t is at or after the expiry.
InvalidToken == [valid |-> FALSE, id |-> 0]

verify(token, t) ==
    IF token.key # JwtSecret THEN InvalidToken
    ELSE IF t >= token.exp THEN InvalidToken
    ELSE [valid |-> TRUE, id |-> token.id]

\* ------------------------------------------------------------ vocabulary of the claims
Requests == 1..Len(reqs)

Done(i) == reqs[i].pc = "done"

\* The failure tags of register and authenticate, read off a response.
Tag(res) ==
    IF res.status \in {200, 201} THEN "Success"
    ELSE IF res.status = 500 THEN "StoreUnavailable"
    ELSE IF res.body.message \in {<<"All fields are required">>, <<"Invalid role">>}
    THEN "InvalidInput"
    ELSE IF res.body.message = <<"User already exists">> THEN "DuplicateEmail"
    ELSE IF res.body.message = <<"User not found for this role">> THEN "NotFoundForRole"
    ELSE IF res.body.message = <<"Invalid password">> THEN "InvalidPassword"
    ELSE "None"

HasToken(res) == "token" \in DOMAIN res.body

\* The response of a request whose store call failed for connectivity reasons.
ConnectionFailed(res) ==
    /\ res.status = 500
    /\ res.body.error = ConnectionError

\* Request i took a step in this transition.
Stepped(i) == reqs'[i] # reqs[i]

AccountsOf(email) == {d \in users : d.email = email}

\* The password an account was registered with: the one in the body of the
\* register that built the document (pw1 for the account found at start).
RegisteredPassword(d) ==
    IF d._id = SeedUser._id THEN "pw1" ELSE reqs[d._id].password

\* ------------------------------------------------------------ C1
\* C1: in every reachable state no two stored accounts have the same email,
\* whatever the interleaving of register and authenticate invocations.
C1_UniqueEmail ==
    \A u \in users : \A v \in users : u.email = v.email => u = v

\* Two registrations of one free email both passed the lookup and both
\* reached user.save(): one was inserted, the other hit the unique index.
C1_Witness ==
    \E i \in Requests : \E j \in Requests :
        /\ i # j
        /\ reqs[i].route = "register" /\ reqs[j].route = "register"
        /\ reqs[i].email = reqs[j].email
        /\ Done(i) /\ Done(j)
        /\ reqs[i].res.status = 201
        /\ "hash" \in {reqs[j].did[k] : k \in DOMAIN reqs[j].did}
        /\ reqs[j].res.status = 500
        /\ reqs[j].res.body.error = DuplicateKeyError

\* ------------------------------------------------------------ C2
\* C2: when the only two register invocations for an email that no account
\* holds have both returned, and neither met a connectivity failure, exactly one
\* returned success, the other returned DuplicateEmail, and the store holds
\* exactly one account for that email.
C2_RaceLoserGetsDuplicateEmail ==
    \A i \in Requests : \A j \in Requests :
        ( /\ i # j
          /\ reqs[i].route = "register" /\ reqs[j].route = "register"
          /\ reqs[i].email = reqs[j].email
          /\ \A k \in Requests :
                (reqs[k].route = "register" /\ reqs[k].email = reqs[i].email) => k \in {i, j}
          /\ \A d \in AccountsOf(reqs[i].email) : d._id \in {ObjectId(i), ObjectId(j)}
          /\ Tag(RegisterStart(reqs[i]).res) # "InvalidInput"
          /\ Tag(RegisterStart(reqs[j]).res) # "InvalidInput"
          /\ Done(i) /\ Done(j)
          /\ ~ConnectionFailed(reqs[i].res) /\ ~ConnectionFailed(reqs[j].res) )
        => /\ {Tag(reqs[i].res), Tag(reqs[j].res)} = {"Success", "DuplicateEmail"}
           /\ Cardinality(AccountsOf(reqs[i].email)) = 1

\* ------------------------------------------------------------ C3
SameInputs(i, j) ==
    /\ reqs[i].email = reqs[j].email
    /\ reqs[i].password = reqs[j].password
    /\ reqs[i].role = reqs[j].role

Registered(i) ==
    /\ reqs[i].route = "register"
    /\ Done(i)
    /\ reqs[i].res.status = 201

\* C3: once a register has succeeded, every step of an authenticate with the
\* same email, password and role goes on to success (the store answering): its
\* lookup finds the account, and its response carries a token whose subject is
\* the subject of the register's token and the id of the stored account.
C3_RegisterThenAuthenticate ==
    [][\A i \in Requests : \A j \in Requests :
        (Registered(i) /\ reqs[j].route = "login" /\ SameInputs(i, j) /\ Stepped(j))
        => \/ ConnectionFailed(reqs'[j].res)
           \/ /\ reqs[j].pc = "findOne"
              /\ reqs'[j].pc = "compare"
           \/ /\ reqs[j].pc = "compare"
              /\ Tag(reqs'[j].res) = "Success"
              /\ HasToken(reqs'[j].res)
              /\ reqs'[j].res.body.token.id = reqs[i].res.body.token.id
              /\ \E d \in users' :
                    /\ d._id = reqs'[j].res.body.token.id
                    /\ d.email = reqs[j].email
                    /\ d.role = reqs[j].role]_vars

C3_Witness ==
    \E i \in Requests : \E j \in Requests :
        /\ Registered(i)
        /\ reqs[j].route = "login" /\ SameInputs(i, j) /\ Done(j)
        /\ reqs[j].res.status = 200
        /\ reqs[j].res.body.token.id = reqs[i].res.body.token.id

\* ------------------------------------------------------------ C4
\* C4: when the lookup of a register returns while an account holds the email,
\* under the requested role or another, the register ends there with
\* DuplicateEmail (the store answering), without a token, the store unchanged.
C4_DuplicateEmailWhateverRole ==
    [][\A i \in Requests :
        (Waiting(i, "register", "findOne") /\ Stepped(i) /\ AccountsOf(reqs[i].email) # {})
        => /\ reqs'[i].pc = "done"
           /\ Tag(reqs'[i].res) = "DuplicateEmail" \/ ConnectionFailed(reqs'[i].res)
           /\ ~HasToken(reqs'[i].res)
           /\ users' = users]_vars

\* A register for a held email under another role than the account's was refused.
C4_Witness ==
    \E i \in Requests :
        /\ reqs[i].route = "register" /\ Done(i)
        /\ Tag(reqs[i].res) = "DuplicateEmail"
        /\ \E d \in AccountsOf(reqs[i].email) :
              d._id # ObjectId(i) /\ d.role # reqs[i].role

\* ------------------------------------------------------------ C5
\* C5: when the lookup of an authenticate returns for the email and the
\* password of a stored account but another role, the authenticate ends there
\* with NotFoundForRole (the store answering), without a token, and without
\* having compared the password.
C5_WrongRoleNotFound ==
    [][\A j \in Requests :
        ( /\ Waiting(j, "login", "findOne") /\ Stepped(j)
          /\ \E d \in AccountsOf(reqs[j].email) :
                d.role # reqs[j].role /\ RegisteredPassword(d) = reqs[j].password )
        => /\ reqs'[j].pc = "done"
           /\ Tag(reqs'[j].res) = "NotFoundForRole" \/ ConnectionFailed(reqs'[j].res)
           /\ ~HasToken(reqs'[j].res)
           /\ \A k \in DOMAIN reqs'[j].did : reqs'[j].did[k] # "compare"]_vars

C5_Witness ==
    \E j \in Requests :
        /\ reqs[j].route = "login" /\ Done(j)
        /\ Tag(reqs[j].res) = "NotFoundForRole"
        /\ \E d \in AccountsOf(reqs[j].email) :
              d.role # reqs[j].role /\ RegisteredPassword(d) = reqs[j].password

\* ------------------------------------------------------------ C6
\* C6: when the comparison of an authenticate that found its account returns,
\* a password other than the one given at registration ends it with
\* InvalidPassword, without a token and with the store unchanged; the
\* registration password ends it with success and a token for that account,
\* whatever attempts failed before.
C6_InvalidPasswordNoLastingEffect ==
    [][\A j \in Requests :
        (Waiting(j, "login", "compare") /\ Stepped(j))
        => \E d \in AccountsOf(reqs[j].email) :
              /\ d.role = reqs[j].role
              /\ reqs'[j].pc = "done"
              /\ users' = users
              /\ IF reqs[j].password # RegisteredPassword(d)
                 THEN /\ Tag(reqs'[j].res) = "InvalidPassword"
                      /\ ~HasToken(reqs'[j].res)
                 ELSE /\ Tag(reqs'[j].res) = "Success"
                      /\ HasToken(reqs'[j].res)
                      /\ reqs'[j].res.body.token.id = d._id]_vars

\* An attempt with a wrong password failed and a later one, made after that
\* failure, succeeded with the right password.
C6_Witness ==
    \E i \in Requests : \E j \in Requests :
        /\ i < j
        /\ reqs[i].route = "login" /\ reqs[j].route = "login"
        /\ reqs[i].email = reqs[j].email /\ reqs[i].role = reqs[j].role
        /\ Done(i) /\ Tag(reqs[i].res) = "InvalidPassword"
        /\ Done(j) /\ Tag(reqs[j].res) = "Success"

\* ------------------------------------------------------------ C7
\* C7: a register in which email, password or role is missing or empty, or
\* role is none of student, teacher, admin, parent, has ended with InvalidInput
\* without a lookup, a hash or an insertion, and without a token.
C7_InvalidInputBeforeAnyStoreCall ==
    \A i \in Requests :
        ( /\ reqs[i].route = "register"
          /\ \/ reqs[i].email \in {"", Undefined}
             \/ reqs[i].password \in {"", Undefined}
             \/ reqs[i].role \notin {"student", "teacher", "admin", "parent"} )
        => /\ Done(i)
           /\ Tag(reqs[i].res) = "InvalidInput"
           /\ reqs[i].did = <<>>
           /\ reqs[i].user = {}
           /\ ~HasToken(reqs[i].res)
           /\ \A d \in users : d._id # ObjectId(i)

\* One register was refused for a role outside the permitted ones, another
\* for an absent field.
C7_Witness ==
    /\ \E i \in Requests :
          /\ reqs[i].route = "register" /\ reqs[i].role = "guest"
          /\ Tag(reqs[i].res) = "InvalidInput"
    /\ \E i \in Requests :
          /\ reqs[i].route = "register" /\ reqs[i].password = Undefined
          /\ Tag(reqs[i].res) = "InvalidInput"

\* ------------------------------------------------------------ C8
\* C8: a token issued at T for an account is accepted by verify, which returns
\* the account's id, at every reading t with T <= t < T + 7 days, and rejected
\* with InvalidToken at every reading t >= T + 7 days.
C8_TokenValidSevenDays ==
    \A i \in Requests :
        (Done(i) /\ HasToken(reqs[i].res))
        => LET token == reqs[i].res.body.token
               T == token.iat
           IN  /\ T <= now
               /\ \E d \in users : d._id = token.id /\ d.email = reqs[i].email
               /\ \A t \in Instants \cup {now} :
                     t >= T =>
                        verify(token, t) =
                            IF t < T + 7 * 24 * 60 * 60
                            THEN [valid |-> TRUE, id |-> token.id]
                            ELSE InvalidToken

\* A token issued after the clock started has been accepted one second before
\* its seven days were over and is rejected now that they are.
C8_Witness ==
    \E i \in Requests :
        /\ Done(i) /\ HasToken(reqs[i].res)
        /\ reqs[i].res.body.token.iat = 1
        /\ now = reqs[i].res.body.token.iat + ExpiresIn
        /\ verify(reqs[i].res.body.token, now - 1).valid
        /\ ~verify(reqs[i].res.body.token, now).valid

\* ------------------------------------------------------------ C9
\* C9: no result of register or authenticate, under either copy of the routes,
\* carries the password field of an account: neither the stored digest nor the
\* plaintext.
C9_NoPasswordInResults ==
    \A i \in Requests :
        Done(i) =>
            /\ "password" \notin DOMAIN reqs[i].res.body
            /\ "user" \in DOMAIN reqs[i].res.body
                  => "password" \notin DOMAIN reqs[i].res.body.user

\* ------------------------------------------------------------ C10
\* C10: for a store in which an email is registered under one role and the
\* store without that account, the lookup of an authenticate for that email
\* under another role ends the request with the same response in both.
C10_RoleNotRevealed ==
    \A d \in users : \A body \in FilledBodies : \A up \in BOOLEAN :
        (body.email = d.email /\ body.role # d.role)
        => LET r == LoginStart(NewReq("login", body))
               with == LoginAfterFindOne(r, up, users)
               without == LoginAfterFindOne(r, up, users \ AccountsOf(d.email))
           IN  /\ with.pc = "done"
               /\ without.pc = "done"
               /\ with.res = without.res

\* In one run an authenticate for an email registered under another role and
\* one for an email nobody registered were both answered, alike.
C10_Witness ==
    \E i \in Requests : \E j \in Requests :
        /\ reqs[i].route = "login" /\ reqs[j].route = "login"
        /\ Done(i) /\ Done(j)
        /\ reqs[i].role = reqs[j].role
        /\ \E d \in AccountsOf(reqs[i].email) : d.role # reqs[i].role
        /\ AccountsOf(reqs[j].email) = {}
        /\ Tag(reqs[i].res) = "NotFoundForRole"
        /\ reqs[i].res = reqs[j].res

\* ------------------------------------------------------------ C11
\* C11: an authenticate refused with NotFoundForRole and one refused with
\* InvalidPassword are answered alike: the same status and the same message.
C11_RefusalsAlike ==
    \A i \in Requests : \A j \in Requests :
        ( /\ reqs[i].route = "login" /\ reqs[j].route = "login"
          /\ Done(i) /\ Done(j)
          /\ Tag(reqs[i].res) = "NotFoundForRole"
          /\ Tag(reqs[j].res) = "InvalidPassword" )
        => /\ reqs[i].res.status = reqs[j].res.status
           /\ reqs[i].res.body.message = reqs[j].res.body.message

\* ------------------------------------------------------------ C12
\* The step request i takes in this transition is the one in which its store
\* call (User.findOne or user.save) fails for want of a connection.
StoreCallFailed(i) ==
    \/ /\ Waiting(i, "register", "findOne")
       /\ reqs'[i] = RegisterAfterFindOne(reqs[i], FALSE, users)
    \/ /\ Waiting(i, "register", "save")
       /\ reqs'[i] = RegisterAfterSave(reqs[i], routes,
                        SaveError(users, CHOOSE d \in reqs[i].user : TRUE, FALSE))
    \/ /\ Waiting(i, "login", "findOne")
       /\ reqs'[i] = LoginAfterFindOne(reqs[i], FALSE, users)

\* C12: when the lookup or the insertion of a register, or the lookup of an
\* authenticate, fails for connectivity reasons, the invocation ends there
\* with StoreUnavailable -- not NotFoundForRole, DuplicateEmail or success --
\* without a token, and nothing is stored.
C12_StoreFailureIsStoreUnavailable ==
    [][\A i \in Requests :
        StoreCallFailed(i)
        => /\ reqs'[i].pc = "done"
           /\ Tag(reqs'[i].res) = "StoreUnavailable"
           /\ Tag(reqs'[i].res) \notin {"NotFoundForRole", "DuplicateEmail", "Success"}
           /\ ~HasToken(reqs'[i].res)
           /\ users' = users]_vars

\* The insertion of a register and the lookup of an authenticate have both
\* failed for want of a connection.
C12_Witness ==
    \E i \in Requests : \E j \in Requests :
        /\ reqs[i].route = "register" /\ Done(i)
        /\ reqs[i].did = <<"findOne", "hash">>
        /\ ConnectionFailed(reqs[i].res)
        /\ \A d \in users : d._id # ObjectId(i)
        /\ reqs[j].route = "login" /\ Done(j)
        /\ reqs[j].did = <<>>
        /\ ConnectionFailed(reqs[j].res)

\* ------------------------------------------------------------ C13
\* C13: the comparison of a password with the digest of a stored account is
\* true for the password the account was registered with and false for every
\* other password; so an authenticate that succeeded on an account gave that
\* account's registration password.
C13_OnlyRegistrationPassword ==
    \A j \in Requests :
        reqs[j].route = "login"
        => /\ \A d \in users :
                 bcryptCompare(reqs[j].password, d.password)
                    <=> reqs[j].password = RegisteredPassword(d)
           /\ (Done(j) /\ Tag(reqs[j].res) = "Success")
                 => \E d \in AccountsOf(reqs[j].email) :
                       /\ d.role = reqs[j].role
                       /\ reqs[j].password = RegisteredPassword(d)

\* ------------------------------------------------------------ C14
\* C14: in every reachable state the subject of every token handed out is the
\* id of a stored account, and only an invocation that ended in success has
\* handed out a token: none that ended in a failure, none still running.
C14_TokensOnlyOnSuccess ==
    \A i \in Requests :
        /\ (Done(i) /\ Tag(reqs[i].res) # "Success") => ~HasToken(reqs[i].res)
        /\ ~Done(i) => ~HasToken(reqs[i].res)
        /\ HasToken(reqs[i].res)
              => /\ reqs[i].route \in {"register", "login"}
                 /\ Tag(reqs[i].res) = "Success"
                 /\ \E d \in users : d._id = reqs[i].res.body.token.id

\* A register whose insertion failed after its document was built ended
\* without a token; another invocation succeeded with a token for a stored
\* account.
C14_Witness ==
    \E i \in Requests : \E j \in Requests :
        /\ reqs[i].route = "register" /\ Done(i)
        /\ reqs[i].user # {}
        /\ Tag(reqs[i].res) = "StoreUnavailable"
        /\ ~HasToken(reqs[i].res)
        /\ Done(j) /\ Tag(reqs[j].res) = "Success"
        /\ HasToken(reqs[j].res)
        /\ \E d \in users : d._id = reqs[j].res.body.token.id

\* ------------------------------------------------------------ C15
\* Request i of route arrives or takes a step in this transition.
Acts(i, route) ==
    /\ i \in 1..Len(reqs')
    /\ reqs'[i].route = route
    /\ IF i \in Requests THEN Stepped(i) ELSE TRUE

\* C15: the step in which a register ends in success adds one account to the
\* store, with the email and the role of the request, and leaves every account
\* stored before in place with its id, email, role and digest; every other
\* step of a register, those ending it in a failure among them, leaves the
\* store as it was.
C15_RegisterAddsOneAccount ==
    [][\A i \in 1..Len(reqs') :
        Acts(i, "register")
        => IF reqs'[i].pc = "done" /\ Tag(reqs'[i].res) = "Success"
           THEN \E doc \in users' :
                   /\ doc \notin users
                   /\ \A d \in users : d._id # doc._id
                   /\ doc.email = reqs'[i].email
                   /\ doc.role = reqs'[i].role
                   /\ users' = users \cup {doc}
                   /\ Cardinality(users') = Cardinality(users) + 1
           ELSE users' = users]_vars

\* A register succeeded on a store that held an account, which is still
\* there, and a register that ended in a failure stored nothing.
C15_Witness ==
    \E i \in Requests : \E j \in Requests :
        /\ Registered(i)
        /\ SeedUser \in users
        /\ \E doc \in users :
              doc._id = ObjectId(i) /\ doc.email = reqs[i].email /\ doc.role = reqs[i].role
        /\ Cardinality(users) = 2
        /\ reqs[j].route = "register" /\ Done(j)
        /\ Tag(reqs[j].res) \in {"DuplicateEmail", "StoreUnavailable", "InvalidInput"}
        /\ \A d \in users : d._id # ObjectId(j)

\* ------------------------------------------------------------ C16
\* The steps of /register after the validation, in the order of the handler.
RegisterSteps == <<"findOne", "hash", "save", "token">>

\* C16: a register validates on arrival, then looks the email up, hashes,
\* inserts and issues the token, in that order and each at most once: it goes
\* from the lookup to the hash only when no account holds the email, from the
\* hash to the insertion with a document that carries the digest of its
\* password, and it hands out a token only in the step in which its document
\* entered the store, with that document's id as subject; once it has ended it
\* takes no further step.
C16_RegisterStepsInOrder ==
    [][\A i \in 1..Len(reqs') :
        Acts(i, "register")
        => LET r == reqs'[i]
               n == Len(r.did)
           IN  /\ n <= Len(RegisterSteps)
               /\ r.did = SubSeq(RegisterSteps, 1, n)
               /\ IF i \notin Requests
                  THEN /\ r.did = <<>>
                       /\ r.pc \in {"findOne", "done"}
                       /\ r.pc = "findOne"
                             <=> (/\ ~Falsy(r.email) /\ ~Falsy(r.password)
                                  /\ r.role \in PermittedRoles)
                       /\ r.pc = "done" => Tag(r.res) = "InvalidInput"
                  ELSE
                  /\ reqs[i].pc # "done"
                  /\ reqs[i].pc = "findOne"
                        => /\ r.pc \in {"hash", "done"}
                           /\ r.pc = "hash"
                                 => r.did = <<"findOne">> /\ AccountsOf(r.email) = {}
                  /\ reqs[i].pc = "hash"
                        => /\ r.pc = "save"
                           /\ r.did = <<"findOne", "hash">>
                           /\ \E doc \in r.user :
                                 /\ bcryptCompare(r.password, doc.password)
                                 /\ doc \notin users
                  /\ reqs[i].pc = "save"
                        => /\ r.pc = "done"
                           /\ r.user = reqs[i].user
                           /\ HasToken(r.res) <=> r.did = RegisterSteps
                           /\ HasToken(r.res) <=> users' # users
                  /\ r.pc # "done" => ~HasToken(r.res) /\ users' = users
                  /\ HasToken(r.res)
                        => \E doc \in r.user :
                              /\ reqs[i].pc = "save"
                              /\ doc \notin users /\ doc \in users'
                              /\ r.res.body.token.id = doc._id]_vars

\* A register went through every step and handed out its token; another
\* stopped at the lookup, the email being held.
C16_Witness ==
    \E i \in Requests : \E j \in Requests :
        /\ Registered(i)
        /\ reqs[i].did = RegisterSteps
        /\ HasToken(reqs[i].res)
        /\ reqs[i].res.body.token.id = ObjectId(i)
        /\ reqs[j].route = "register" /\ Done(j)
        /\ reqs[j].did = <<"findOne">>
        /\ Tag(reqs[j].res) = "DuplicateEmail"

\* ------------------------------------------------------------ C17
\* C17: in every reachable state, under either copy of the routes, the
\* password field of every stored account is a digest that bcrypt made, at
\* cost 10 and with some salt, of the password the account was registered
\* with -- a digest, which that password verifies against, not the password.
C17_StoredPasswordIsDigest ==
    \A d \in users :
        /\ DOMAIN d.password = {"rounds", "salt", "hash"}
        /\ \E salt \in Salts \cup {SeedUser.password.salt} :
              d.password = bcryptHash(RegisteredPassword(d), SaltRounds, salt)
        /\ bcryptCompare(RegisteredPassword(d), d.password)

\* An account registered in this run is stored with the digest of the
\* password its register sent.
C17_Witness ==
    \E i \in Requests : \E d \in users :
        /\ Registered(i)
        /\ d._id = ObjectId(i)
        /\ d.email = reqs[i].email
        /\ d.password.rounds = SaltRounds
        /\ d.password.hash[1] = reqs[i].password

\* ------------------------------------------------------------ C18
\* C18: whatever step follows the handing out of a token -- a register, an
\* authenticate, one that hands out a newer token for the same account, or
\* time passing -- the token stays as it was issued, its account stays in the
\* store, and verify accepts it with the account's id as long as the clock
\* reads less than seven days past its issue: no later operation revokes it.
C18_TokensNotRevoked ==
    [][\A i \in Requests :
        (Done(i) /\ HasToken(reqs[i].res))
        => LET token == reqs[i].res.body.token
           IN  /\ reqs'[i].res.body.token = token
               /\ \E d \in users' : d._id = token.id /\ d.email = reqs[i].email
               /\ now' < token.iat + 7 * 86400
                     => verify(token, now') = [valid |-> TRUE, id |-> token.id]]_vars

\* An account's first token is still accepted after a later authenticate
\* handed out a second token for the account and the clock moved on.
C18_Witness ==
    \E i \in Requests : \E j \in Requests :
        /\ Done(i) /\ HasToken(reqs[i].res)
        /\ Done(j) /\ HasToken(reqs[j].res)
        /\ reqs[j].route = "login"
        /\ reqs[i].res.body.token.id = reqs[j].res.body.token.id
        /\ reqs[i].res.body.token.iat < reqs[j].res.body.token.iat
        /\ reqs[j].res.body.token.iat < now
        /\ now < reqs[i].res.body.token.iat + ExpiresIn
        /\ verify(reqs[i].res.body.token, now) = [valid |-> TRUE, id |-> ObjectId(i)]

\* ------------------------------------------------------------ C19
\* The results of each route.
RegisterResults == {"Success", "InvalidInput", "DuplicateEmail", "StoreUnavailable"}

LoginResults ==
    {"Success", "InvalidInput", "NotFoundForRole", "InvalidPassword", "StoreUnavailable"}

\* C19: every register and every authenticate that arrived ends, whatever
\* other invocations run beside it, provided every call it awaits settles; it
\* ends with one result -- success or one of the tagged failures of its route
\* -- has none before it ends, and its result never changes afterwards.
C19_EveryInvocationEnds ==
    /\ \A i \in 1..MaxReqs : (i \in Requests) ~> (i \in Requests /\ Done(i))
    /\ [](\A i \in Requests :
            IF Done(i)
            THEN Tag(reqs[i].res) \in
                    (IF reqs[i].route = "register" THEN RegisterResults ELSE LoginResults)
            ELSE reqs[i].res = NoRes)
    /\ [][\A i \in Requests : Done(i) => reqs'[i] = reqs[i]]_vars

\* A register and an authenticate that both called the store, the second
\* arriving before the first ended, have both ended.
C19_Witness ==
    \E i \in Requests : \E j \in Requests :
        /\ i < j
        /\ reqs[i].route = "register" /\ reqs[j].route = "login"
        /\ Done(i) /\ Done(j)
        /\ Len(reqs[i].did) > 0 /\ Len(reqs[j].did) > 0
        /\ Tag(reqs[i].res) \in RegisterResults
        /\ Tag(reqs[j].res) \in LoginResults

\* ------------------------------------------------------------ C20
\* C20: no step of an authenticate, under either copy of the routes -- its
\* arrival, its lookup, its comparison, whatever result it ends with --
\* changes the store: the same accounts with the same fields before and after.
C20_AuthenticateLeavesStore ==
    [][\A i \in 1..Len(reqs') : Acts(i, "login") => users' = users]_vars

\* An authenticate that succeeded and one that was refused have ended, and
\* the account they were about is stored as it was at the start.
C20_Witness ==
    \E i \in Requests : \E j \in Requests :
        /\ reqs[i].route = "login" /\ reqs[j].route = "login"
        /\ Done(i) /\ Tag(reqs[i].res) = "Success"
        /\ Done(j) /\ Tag(reqs[j].res) = "InvalidPassword"
        /\ reqs[i].email = SeedUser.email /\ reqs[j].email = SeedUser.email
        /\ users = {SeedUser}

\* ------------------------------------------------------------ C21
\* C21: an authenticate with email, password and role all present and a role
\* that is none of student, teacher, admin, parent is not refused on arrival:
\* it goes to the lookup, which finds nothing, no stored account carrying such
\* a role, and ends with NotFoundForRole (the store answering) -- not with
\* InvalidInput, not with success -- without a comparison and without a token.
C21_UnknownRoleNotFound ==
    /\ \A d \in users : d.role \in {"student", "teacher", "admin", "parent"}
    /\ \A j \in Requests :
          ( /\ reqs[j].route = "login"
            /\ reqs[j].email \notin {"", Undefined}
            /\ reqs[j].password \notin {"", Undefined}
            /\ reqs[j].role \notin {"", Undefined}
            /\ reqs[j].role \notin {"student", "teacher", "admin", "parent"} )
          => /\ reqs[j].pc \in {"findOne", "done"}
             /\ reqs[j].user = {}
             /\ ~HasToken(reqs[j].res)
             /\ Done(j)
                   => /\ Tag(reqs[j].res) \notin {"InvalidInput", "Success"}
                      /\ \/ /\ Tag(reqs[j].res) = "NotFoundForRole"
                            /\ reqs[j].did = <<"findOne">>
                         \/ /\ ConnectionFailed(reqs[j].res)
                            /\ reqs[j].did = <<>>

\* An authenticate as guest for a registered email, with the account's
\* password, was looked up and refused with NotFoundForRole.
C21_Witness ==
    \E j \in Requests :
        /\ reqs[j].route = "login" /\ Done(j)
        /\ reqs[j].role = "guest"
        /\ AccountsOf(reqs[j].email) # {}
        /\ reqs[j].did = <<"findOne">>
        /\ Tag(reqs[j].res) = "NotFoundForRole"

\* ------------------------------------------------------------ C22
\* The response of an authenticate with this body run on the store as it is,
\* the lookup answering.
AuthenticateNow(body) ==
    LET found == LoginAfterFindOne(LoginStart(NewReq("login", body)), TRUE, users)
    IN  IF found.pc = "compare" THEN LoginAfterCompare(found, routes).res ELSE found.res

\* C22: in every reachable state, two authenticates for one email that both
\* succeed on the store as it is name the same role and get tokens with the
\* same subject, whatever their passwords; and so do any two authenticates
\* for one email that have succeeded in the run.  Registrations of the email
\* under different roles, racing or not, do not change this.
C22_OneRolePerEmail ==
    /\ LET succeeds == {b \in FilledBodies : Tag(AuthenticateNow(b)) = "Success"}
       IN  \A b1 \in succeeds : \A b2 \in succeeds :
              b1.email = b2.email
              => /\ b1.role = b2.role
                 /\ AuthenticateNow(b1).body.token.id = AuthenticateNow(b2).body.token.id
    /\ \A i \in Requests : \A j \in Requests :
          ( /\ reqs[i].route = "login" /\ reqs[j].route = "login"
            /\ reqs[i].email = reqs[j].email
            /\ Done(i) /\ Tag(reqs[i].res) = "Success"
            /\ Done(j) /\ Tag(reqs[j].res) = "Success" )
          => /\ reqs[i].role = reqs[j].role
             /\ reqs[i].res.body.token.id = reqs[j].res.body.token.id

\* Two registrations of a free email under different roles both passed the
\* lookup and both reached the insertion; one was stored.  An authenticate
\* under its role would now succeed, one under the other's role would not.
C22_Witness ==
    \E i \in Requests : \E j \in Requests :
        /\ reqs[i].route = "register" /\ reqs[j].route = "register"
        /\ reqs[i].email = reqs[j].email
        /\ reqs[i].role # reqs[j].role
        /\ Registered(i)
        /\ Done(j) /\ reqs[j].did = <<"findOne", "hash">>
        /\ reqs[j].res.status = 500
        /\ Tag(AuthenticateNow([email |-> reqs[i].email, password |-> reqs[i].password,
                                role |-> reqs[i].role])) = "Success"
        /\ Tag(AuthenticateNow([email |-> reqs[j].email, password |-> reqs[j].password,
                                role |-> reqs[j].role])) = "NotFoundForRole"

====
